---- MODULE Spec2Model ----
(***************************************************************************)
(* Model of gpiointerrupt.c: a Morse code signalling device.  The main     *)
(* loop steps signal_message() once per timer tick and applies a pending   *)
(* message switch once the message in progress has ended; two GPIO button  *)
(* callbacks and the timer callback preempt the main loop.                 *)
(***************************************************************************)
EXTENDS Integers, Sequences, FiniteSets, TLC

VARIABLES
    messages,            \* char *messages[]  (fixed after Init)
    TimerFlag,           \* volatile unsigned char
    message_ended,       \* volatile short int
    button_pressed,      \* volatile unsigned char
    next_message_index,  \* volatile unsigned char
    message_index,       \* short unsigned int
    character_index,     \* short unsigned int
    symbol_index,        \* short unsigned int
    phase,               \* short unsigned int
    checkTime,           \* unsigned long, local of mainThread
    pc,                  \* position of mainThread in its loop
    tmp,                 \* value of normalize_message_index(...) in line 111
    leds,                \* the pattern on the two LEDs (bit 0 red, bit 1 green)
    \* ---- history variables (observations, never read by the program) ----
    ev,                  \* which context ran last: "main", "timer", "btn0", "btn1"
    stepCalls,           \* set_leds arguments issued by the last signal_message call
    stepEnded,           \* the last signal_message call set message_ended
    issued,              \* set_leds arguments issued since the playback began
    played,              \* <<character_index, symbol_index, symbol>> on each symbol's first step
    fromStart,           \* the playback in progress began at cursor (0,0,0)
    latchedBy,           \* handler that set the latch: "none", "next", "prev"
    pressedMid,          \* the latched press arrived while message_ended was 0
    origin,              \* message_index at the start of the current run of next-applies
    nextRun,             \* number of next-applies since origin
    appliedFrom,         \* message_index before the last apply
    iterSteps,           \* signal_message calls in the loop iteration in progress
    everPressed,         \* a button handler has run
    firstIssued,         \* set_leds arguments of the first playback, no button pressed
    completions,         \* playbacks completed with no button pressed (up to MaxCompletions)
    incSum               \* sum modulo num_messages of the increments applied so far

progVars == <<messages, TimerFlag, message_ended, button_pressed, next_message_index,
              message_index, character_index, symbol_index, phase, checkTime, pc,
              tmp, leds>>
histVars == <<ev, stepCalls, stepEnded, issued, played, fromStart, latchedBy,
              pressedMid, origin, nextRun, appliedFrom, iterSteps, everPressed,
              firstIssued, completions, incSum>>
vars == <<progVars, histVars>>

(***************************************************************************)
(* Bounds of the model.                                                    *)
(***************************************************************************)
\* checkTime is counted exactly for this many loop iterations, then it saturates
MaxCheckTicks == 6
\* longest run of next-applies that the history counter nextRun follows
MaxRun == 3
\* number of playbacks without a press that the history counter completions follows
MaxCompletions == 2

(***************************************************************************)
(* Program constants.                                                      *)
(***************************************************************************)
dot_len == 2
dash_len == 4
character_pause_len == 2
word_pause_len == 4
checkPeriod == 500
checkIncrement == 100
UCharMod == 256
UShortMod == 65536

NUL == "NUL"   \* the string terminator '\0'

\* the message list of the program and other lists of the same shape
RealMessages == << <<"s","s">>, <<"o","o">>, <<"s","o","s">> >>
MessageLists == { RealMessages,
                  << <<"e">> >>,
                  << <<>>, <<"t">> >>,
                  << <<"a"," ">>, <<"n">> >> }

Chars == {"a","e","n","o","s","t"," "}
Symbols == {".", "-", " "}

num_messages == Len(messages)

(***************************************************************************)
(* get_morse: character -> Morse string.                                   *)
(***************************************************************************)
get_morse(character) ==
    CASE character = "a" -> <<".","-">>
      [] character = "b" -> <<"-",".",".",".">>
      [] character = "c" -> <<"-",".","-",".">>
      [] character = "d" -> <<"-",".",".">>
      [] character = "e" -> <<".">>
      [] character = "f" -> <<".",".","-",".">>
      [] character = "g" -> <<"-","-",".">>
      [] character = "h" -> <<".",".",".",".">>
      [] character = "i" -> <<".",".">>
      [] character = "j" -> <<".","-","-","-">>
      [] character = "k" -> <<"-",".","-">>
      [] character = "l" -> <<".","-",".",".">>
      [] character = "m" -> <<"-","-">>
      [] character = "n" -> <<"-",".">>
      [] character = "o" -> <<"-","-","-">>
      [] character = "p" -> <<".","-","-",".">>
      [] character = "q" -> <<"-","-",".","-">>
      [] character = "r" -> <<".","-",".">>
      [] character = "s" -> <<".",".",".">>
      [] character = "t" -> <<"-">>
      [] character = "u" -> <<".",".","-">>
      [] character = "v" -> <<".",".",".","-">>
      [] character = "w" -> <<".","-","-">>
      [] character = "x" -> <<"-",".",".","-">>
      [] character = "y" -> <<"-",".","-","-">>
      [] character = "z" -> <<"-","-",".",".">>
      [] OTHER -> <<" ">>

\* str[i] for a C string: the characters, the terminator, and past the
\* terminator any value at all (the read is undefined behaviour)
ReadAt(str, i, alphabet) ==
    IF i < Len(str) THEN {str[i + 1]}
    ELSE IF i = Len(str) THEN {NUL}
    ELSE alphabet \cup {NUL}

(***************************************************************************)
(* The LED functions: each returns the sequence of set_leds arguments it   *)
(* issues for the given phase.                                             *)
(***************************************************************************)
signal_dot_LongOn(p) == IF p <= 1 THEN <<1>> ELSE <<0>>

signal_dot_NoOff(p) == IF p <= 0 THEN <<1>> ELSE <<>>

signal_dot(p) == IF p <= 0 THEN <<1>> ELSE <<0>>

signal_dash_AllOn(p) == IF p <= 3 THEN <<2>> ELSE <<0>>

signal_dash(p) == IF p <= 2 THEN <<2>> ELSE <<0>>

character_pause(p) == IF p <= 1 THEN <<0>> ELSE <<>>

word_pause_Always(p) == <<0>>

word_pause(p) == IF p <= 3 THEN <<0>> ELSE <<>>

\* set_leds: both LEDs off, then red on for bit 0 and green on for bit 1
set_leds(led_settings) ==
    (IF led_settings % 2 = 1 THEN 1 ELSE 0)
    + (IF (led_settings \div 2) % 2 = 1 THEN 2 ELSE 0)

\* the LEDs after a sequence of set_leds calls
LedsAfter(cur, calls) == IF calls = <<>> THEN cur ELSE set_leds(calls[Len(calls)])

normalize_message_index(index) == index % num_messages

(***************************************************************************)
(* signal_message: one step of the playback, as a function of the cursor   *)
(* and of the character and symbol read at it.                             *)
(***************************************************************************)
Cursor(ci, si, ph, me, calls) ==
    [ci |-> ci, si |-> si, ph |-> ph, ended |-> me, calls |-> calls]

SymbolAdvance_Skip(ci, si, me) == Cursor(ci, (si + 2) % UShortMod, 0, me, <<>>)

SymbolAdvance_WithOff(ci, si, me) == Cursor(ci, (si + 1) % UShortMod, 0, me, <<0>>)

SymbolAdvance(ci, si, me) == Cursor(ci, (si + 1) % UShortMod, 0, me, <<>>)

SymbolStep(symbol, ci, si, ph) ==
    CASE symbol = "." ->
           IF ph < dot_len
           THEN Cursor(ci, si, (ph + 1) % UShortMod, 0, signal_dot(ph))
           ELSE SymbolAdvance(ci, si, 0)
      [] symbol = "-" ->
           IF ph < dash_len
           THEN Cursor(ci, si, (ph + 1) % UShortMod, 0, signal_dash(ph))
           ELSE SymbolAdvance(ci, si, 0)
      [] OTHER ->
           IF ph < word_pause_len
           THEN Cursor(ci, si, (ph + 1) % UShortMod, 0, word_pause(ph))
           ELSE SymbolAdvance(ci, si, 0)

CharacterPauseStep_KeepSymbol(ci, si, ph) ==
    IF ph <= character_pause_len
    THEN Cursor(ci, si, (ph + 1) % UShortMod, 0, character_pause(ph))
    ELSE Cursor((ci + 1) % UShortMod, si, 0, 0, <<>>)

CharacterPauseStep(ci, si, ph) ==
    IF ph <= character_pause_len
    THEN Cursor(ci, si, (ph + 1) % UShortMod, 0, character_pause(ph))
    ELSE Cursor((ci + 1) % UShortMod, 0, 0, 0, <<>>)

MessagePauseStep_Sticky(ci, si, ph, me) ==
    IF ph <= word_pause_len
    THEN Cursor(ci, si, (ph + 1) % UShortMod, 1, word_pause(ph))
    ELSE Cursor(0, 0, 0, 1, <<>>)

MessagePauseStep(ci, si, ph, me) ==
    IF ph <= word_pause_len
    THEN Cursor(ci, si, (ph + 1) % UShortMod, me, word_pause(ph))
    ELSE Cursor(0, 0, 0, 1, <<>>)

StepResult(character, symbol, ci, si, ph, me) ==
    IF character # NUL
    THEN IF symbol # NUL
         THEN SymbolStep(symbol, ci, si, ph)
         ELSE CharacterPauseStep(ci, si, ph)
    ELSE MessagePauseStep(ci, si, ph, me)

\* the character and the symbol under the cursor
CurrentMessage == messages[message_index + 1]
CurChars == ReadAt(CurrentMessage, character_index, Chars)
CurSymbols(character) ==
    IF character = NUL THEN {NUL}
    ELSE ReadAt(get_morse(character), symbol_index, Symbols)

(***************************************************************************)
(* The button callbacks: <<next_message_index, button_pressed>> after the  *)
(* call.                                                                   *)
(***************************************************************************)
Fxn0Effect_NoLatch(nmi, bp) == <<(nmi + 1) % UCharMod, 1>>

Fxn0Effect_PlusTwo(nmi, bp) ==
    IF bp = 0 THEN <<(nmi + 2) % UCharMod, 1>> ELSE <<nmi, bp>>

Fxn0Effect(nmi, bp) ==
    IF bp = 0 THEN <<(nmi + 1) % UCharMod, 1>> ELSE <<nmi, bp>>

Fxn1Effect_Decrement(nmi, bp) ==
    IF bp = 0 THEN <<(nmi + UCharMod - 1) % UCharMod, 1>> ELSE <<nmi, bp>>

Fxn1Effect_NoLatch(nmi, bp) == <<(nmi + num_messages - 1) % UCharMod, 1>>

Fxn1Effect(nmi, bp) ==
    IF bp = 0 THEN <<(nmi + num_messages - 1) % UCharMod, 1>> ELSE <<nmi, bp>>

ApplyCond_IgnoreEnded(nmi, mi, me) == nmi # mi

\* the condition of line 110
ApplyCond(nmi, mi, me) == nmi # mi /\ me = 1

StepDue_Once(ct) == ct = checkPeriod

\* line 104
StepDue(ct) == ct >= checkPeriod

\* checkTime += 100, exact for MaxCheckTicks iterations
CheckTimeNext(ct) ==
    IF ct + checkIncrement > MaxCheckTicks * checkIncrement
    THEN MaxCheckTicks * checkIncrement
    ELSE ct + checkIncrement

(***************************************************************************)
(* Initial state: the globals as initialised, mainThread at the top of its *)
(* loop after initTimer() and configure_board().                           *)
(***************************************************************************)
InitWith(lists) ==
    /\ messages \in lists
    /\ TimerFlag = 0
    /\ message_ended = 0
    /\ button_pressed = 0
    /\ next_message_index = 0
    /\ message_index = 0
    /\ character_index = 0
    /\ symbol_index = 0
    /\ phase = 0
    /\ checkTime = 0
    /\ pc = "step"
    /\ tmp = 0
    /\ leds = 0
    /\ ev = "main"
    /\ stepCalls = <<>>
    /\ stepEnded = FALSE
    /\ issued = <<>>
    /\ played = <<>>
    /\ fromStart = FALSE
    /\ latchedBy = "none"
    /\ pressedMid = FALSE
    /\ origin = 0
    /\ nextRun = 0
    /\ appliedFrom = 0
    /\ iterSteps = 0
    /\ everPressed = FALSE
    /\ firstIssued = <<>>
    /\ completions = 0
    /\ incSum = 0

Init == InitWith(MessageLists)

(***************************************************************************)
(* mainThread, one action per statement of the loop body.                  *)
(***************************************************************************)
pressVars == <<latchedBy, pressedMid>>
runVars == <<origin, nextRun, appliedFrom>>
playVars == <<stepCalls, stepEnded, issued, played, fromStart>>
cursorVars == <<character_index, symbol_index, phase>>
replayVars == <<everPressed, firstIssued, completions>>
obsVars == <<iterSteps, replayVars, incSum>>

\* the increment a latched press asks for
PendingInc == IF latchedBy = "next" THEN 1
              ELSE IF latchedBy = "prev" THEN num_messages - 1
              ELSE 0

\* lines 104-106
MainStep ==
    /\ pc = "step"
    /\ pc' = "check"
    /\ ev' = "main"
    /\ IF StepDue(checkTime)
       THEN \E character \in CurChars : \E symbol \in CurSymbols(character) :
              LET r == StepResult(character, symbol, character_index,
                                  symbol_index, phase, message_ended)
                  atStart == character_index = 0 /\ symbol_index = 0 /\ phase = 0
                  firstStep == character # NUL /\ symbol # NUL /\ phase = 0
                  visit == <<character_index, symbol_index, symbol>>
              IN /\ character_index' = r.ci
                 /\ symbol_index' = r.si
                 /\ phase' = r.ph
                 /\ message_ended' = r.ended
                 /\ leds' = LedsAfter(leds, r.calls)
                 /\ stepCalls' = r.calls
                 /\ stepEnded' = (character = NUL /\ r.ended = 1 /\ r.calls = <<>>
                                  /\ r.ph = 0)
                 /\ issued' = (IF atStart THEN <<>> ELSE issued) \o r.calls
                 /\ played' = (IF atStart THEN <<>> ELSE played)
                                \o (IF firstStep THEN <<visit>> ELSE <<>>)
                 /\ fromStart' = (atStart \/ fromStart)
                 /\ iterSteps' = iterSteps + 1
                 /\ completions' = IF stepEnded' /\ ~everPressed /\ completions < MaxCompletions
                                    THEN completions + 1 ELSE completions
                 /\ firstIssued' = IF stepEnded' /\ ~everPressed /\ completions = 0
                                    THEN issued' ELSE firstIssued
       ELSE UNCHANGED <<cursorVars, message_ended, leds, playVars, iterSteps,
                        completions, firstIssued>>
    /\ UNCHANGED <<messages, TimerFlag, button_pressed, next_message_index,
                   message_index, checkTime, tmp, pressVars, runVars,
                   everPressed, incSum>>

\* line 110
MainCheck ==
    /\ pc = "check"
    /\ pc' = IF ApplyCond(next_message_index, message_index, message_ended)
             THEN "a111r" ELSE "wait"
    /\ ev' = "main"
    /\ UNCHANGED <<messages, TimerFlag, message_ended, button_pressed,
                   next_message_index, message_index, cursorVars, checkTime,
                   tmp, leds, playVars, pressVars, runVars,
                   obsVars>>

\* line 111: the call normalize_message_index(next_message_index)
MainNormalize ==
    /\ pc = "a111r"
    /\ pc' = "a111n"
    /\ ev' = "main"
    /\ tmp' = normalize_message_index(next_message_index)
    /\ UNCHANGED <<messages, TimerFlag, message_ended, button_pressed,
                   next_message_index, message_index, cursorVars, checkTime,
                   leds, playVars, pressVars, runVars,
                   obsVars>>

\* line 111: next_message_index = <the value>
MainStoreNext ==
    /\ pc = "a111n"
    /\ pc' = "a111m"
    /\ ev' = "main"
    /\ next_message_index' = tmp % UCharMod
    /\ UNCHANGED <<messages, TimerFlag, message_ended, button_pressed,
                   message_index, cursorVars, checkTime, tmp, leds, playVars,
                   pressVars, runVars,
                   obsVars>>

\* line 111: message_index = <the value>
MainStoreIndex ==
    /\ pc = "a111m"
    /\ pc' = "a112"
    /\ ev' = "main"
    /\ message_index' = tmp % UCharMod
    /\ fromStart' = FALSE
    /\ issued' = <<>>
    /\ played' = <<>>
    /\ IF latchedBy = "next" /\ nextRun < MaxRun
       THEN origin' = origin /\ nextRun' = nextRun + 1
       ELSE IF latchedBy = "next"
       THEN origin' = message_index /\ nextRun' = 1
       ELSE origin' = tmp % UCharMod /\ nextRun' = 0
    /\ appliedFrom' = message_index
    /\ incSum' = (incSum + PendingInc) % num_messages
    /\ UNCHANGED <<messages, TimerFlag, message_ended, button_pressed,
                   next_message_index, cursorVars, checkTime, tmp, leds,
                   stepCalls, stepEnded, pressVars, iterSteps, replayVars>>

\* line 112
MainClearEnded ==
    /\ pc = "a112"
    /\ pc' = "a113"
    /\ ev' = "main"
    /\ message_ended' = 0
    /\ UNCHANGED <<messages, TimerFlag, button_pressed, next_message_index,
                   message_index, cursorVars, checkTime, tmp, leds, playVars,
                   pressVars, runVars,
                   obsVars>>

\* line 113
MainClearPressed ==
    /\ pc = "a113"
    /\ pc' = "wait"
    /\ ev' = "main"
    /\ button_pressed' = 0
    /\ latchedBy' = "none"
    /\ pressedMid' = FALSE
    /\ UNCHANGED <<messages, TimerFlag, message_ended, next_message_index,
                   message_index, cursorVars, checkTime, tmp, leds, playVars,
                   runVars,
                   obsVars>>

\* line 117: the busy wait ends once TimerFlag is set
MainWait ==
    /\ pc = "wait"
    /\ TimerFlag # 0
    /\ pc' = "clear"
    /\ ev' = "main"
    /\ UNCHANGED <<messages, TimerFlag, message_ended, button_pressed,
                   next_message_index, message_index, cursorVars, checkTime,
                   tmp, leds, playVars, pressVars, runVars,
                   obsVars>>

\* lines 118-119
MainClearTimer ==
    /\ pc = "clear"
    /\ pc' = "step"
    /\ ev' = "main"
    /\ TimerFlag' = 0
    /\ checkTime' = CheckTimeNext(checkTime)
    /\ iterSteps' = 0
    /\ UNCHANGED <<messages, message_ended, button_pressed, next_message_index,
                   message_index, cursorVars, tmp, leds, playVars, pressVars,
                   runVars, replayVars, incSum>>

mainThread ==
    \/ MainStep
    \/ MainCheck
    \/ MainNormalize
    \/ MainStoreNext
    \/ MainStoreIndex
    \/ MainClearEnded
    \/ MainClearPressed
    \/ MainWait
    \/ MainClearTimer

(***************************************************************************)
(* The interrupt callbacks; each runs to completion.                       *)
(***************************************************************************)
timerCallback ==
    /\ TimerFlag' = 1
    /\ ev' = "timer"
    /\ UNCHANGED <<messages, message_ended, button_pressed, next_message_index,
                   message_index, cursorVars, checkTime, pc, tmp, leds,
                   playVars, pressVars, runVars,
                   obsVars>>

gpioButtonFxn0_ResetsPhase ==
    /\ next_message_index' = Fxn0Effect(next_message_index, button_pressed)[1]
    /\ button_pressed' = Fxn0Effect(next_message_index, button_pressed)[2]
    /\ phase' = 0
    /\ ev' = "btn0"
    /\ latchedBy' = IF button_pressed = 0 THEN "next" ELSE latchedBy
    /\ pressedMid' = IF button_pressed = 0 THEN message_ended = 0 ELSE pressedMid
    /\ everPressed' = TRUE
    /\ firstIssued' = <<>>
    /\ completions' = 0
    /\ UNCHANGED <<messages, TimerFlag, message_ended, message_index,
                   character_index, symbol_index, checkTime, pc, tmp, leds,
                   playVars, runVars, iterSteps, incSum>>

gpioButtonFxn0 ==
    /\ next_message_index' = Fxn0Effect(next_message_index, button_pressed)[1]
    /\ button_pressed' = Fxn0Effect(next_message_index, button_pressed)[2]
    /\ ev' = "btn0"
    /\ latchedBy' = IF button_pressed = 0 THEN "next" ELSE latchedBy
    /\ pressedMid' = IF button_pressed = 0 THEN message_ended = 0 ELSE pressedMid
    /\ everPressed' = TRUE
    /\ firstIssued' = <<>>
    /\ completions' = 0
    /\ UNCHANGED <<messages, TimerFlag, message_ended, message_index,
                   cursorVars, checkTime, pc, tmp, leds, playVars, runVars,
                   iterSteps, incSum>>

gpioButtonFxn1 ==
    /\ next_message_index' = Fxn1Effect(next_message_index, button_pressed)[1]
    /\ button_pressed' = Fxn1Effect(next_message_index, button_pressed)[2]
    /\ ev' = "btn1"
    /\ latchedBy' = IF button_pressed = 0 THEN "prev" ELSE latchedBy
    /\ pressedMid' = IF button_pressed = 0 THEN message_ended = 0 ELSE pressedMid
    /\ everPressed' = TRUE
    /\ firstIssued' = <<>>
    /\ completions' = 0
    /\ UNCHANGED <<messages, TimerFlag, message_ended, message_index,
                   cursorVars, checkTime, pc, tmp, leds, playVars, runVars,
                   iterSteps, incSum>>

Next ==
    \/ mainThread
    \/ timerCallback
    \/ gpioButtonFxn0
    \/ gpioButtonFxn1

Spec == Init /\ [][Next]_vars

\* the main loop always runs and the timer is periodic; presses are not forced
FairSpec == Spec /\ WF_vars(mainThread) /\ WF_vars(timerCallback)

TypeOK ==
    /\ messages \in MessageLists
    /\ TimerFlag \in {0, 1}
    /\ message_ended \in {0, 1}
    /\ button_pressed \in {0, 1}
    /\ next_message_index \in 0..(UCharMod - 1)
    /\ message_index \in 0..(num_messages - 1)
    /\ leds \in 0..3

(***************************************************************************)
(* Helpers of the properties.                                              *)
(***************************************************************************)
IsPrefix(s, t) == Len(s) <= Len(t) /\ SubSeq(t, 1, Len(s)) = s

AtStart == character_index = 0 /\ symbol_index = 0 /\ phase = 0

\* a signal_message call is the next thing mainThread does
Stepping == pc = "step" /\ StepDue(checkTime)

\* the step of mainThread that calls signal_message (lines 104-106)
StepTaken == Stepping /\ pc' = "check"

\* the step of mainThread that stores message_index (line 111)
Applying == pc = "a111m" /\ pc' = "a112"

\* the symbol the next step is dispatched on, NUL in a pause
ActiveSymbol ==
    IF character_index < Len(CurrentMessage)
    THEN LET morse == get_morse(CurrentMessage[character_index + 1])
         IN IF symbol_index < Len(morse) THEN morse[symbol_index + 1] ELSE NUL
    ELSE NUL

\* every symbol of every character of message M, in order
RECURSIVE VisitsFrom(_, _)
VisitsFrom(M, ci) ==
    IF ci > Len(M) THEN <<>>
    ELSE [si \in 1..Len(get_morse(M[ci])) |->
             <<ci - 1, si - 1, get_morse(M[ci])[si]>>] \o VisitsFrom(M, ci + 1)

Visits(M) == VisitsFrom(M, 1)

C2_PressEventuallyApplied ==
    \A t \in 0..2 :
        (button_pressed = 1 /\ next_message_index % num_messages = t)
            ~> (button_pressed = 0 /\ message_index = t)

(***************************************************************************)
(* C3: while button_pressed is set, a call of either handler changes no    *)
(* program variable, and the next-message handler called twice gives what  *)
(* one call gives.                                                         *)
(***************************************************************************)
C3_LatchedPressNoEffect ==
    [][/\ (button_pressed = 1 /\ ev' \in {"btn0", "btn1"}) => UNCHANGED progVars
       /\ LET once == Fxn0Effect(next_message_index, button_pressed)
          IN Fxn0Effect(once[1], once[2]) = once]_vars

C3_Witness ==
    /\ button_pressed = 1
    /\ latchedBy = "next"
    /\ ev = "btn1"
    /\ next_message_index = message_index + 1

(***************************************************************************)
(* C4: after k applied next presses in a row starting from index i,        *)
(* message_index is (i + k) mod N; after N of them it is i again.          *)
(***************************************************************************)
C4_NextRoundTrip ==
    /\ message_index = (origin + nextRun) % num_messages
    /\ nextRun = num_messages => message_index = origin

C4_Witness ==
    /\ messages = RealMessages
    /\ nextRun = 3
    /\ message_index = origin
    /\ appliedFrom = (origin + 2) % 3
    /\ pc = "a112"

(***************************************************************************)
(* C5: an applied previous press moves message_index from i to             *)
(* (i + N - 1) mod N, and right after an applied next press it restores    *)
(* the index the next press started from.                                  *)
(***************************************************************************)
C5_PrevApply ==
    [][(Applying /\ latchedBy = "prev") =>
          /\ message_index' = (message_index + num_messages - 1) % num_messages
          /\ nextRun >= 1 =>
                message_index' = (origin + nextRun - 1) % num_messages]_vars

C5_Witness ==
    /\ messages = RealMessages
    /\ pc = "a112"
    /\ latchedBy = "prev"
    /\ appliedFrom = 0
    /\ message_index = 2

(***************************************************************************)
(* C6: a playback that began at the start of a message has, when           *)
(* message_ended is set, made the first step of every symbol of every      *)
(* character of the message, in order and once each; until then the        *)
(* symbols visited are a prefix of that sequence.                          *)
(***************************************************************************)
C6_VisitsEverySymbol ==
    fromStart =>
        /\ IsPrefix(played, Visits(CurrentMessage))
        /\ stepEnded => played = Visits(CurrentMessage)

C6_Witness ==
    /\ fromStart
    /\ stepEnded
    /\ messages = RealMessages
    /\ message_index = 2
    /\ Len(played) = 9

(***************************************************************************)
(* C7 as stated: one full playback of "ss" issues                          *)
(* [A,A,off,off,A,A,off,off, off,off, off x4].                             *)
(***************************************************************************)
C7_Original ==
    (messages = RealMessages /\ message_index = 0 /\ fromStart /\ stepEnded)
        => issued = <<1,1,0,0,1,1,0,0, 0,0, 0,0,0,0>>

\* what one full playback of "ss" issues
SsIssued == <<1,0,1,0,1,0, 0,0, 1,0,1,0,1,0, 0,0, 0,0,0,0>>

(***************************************************************************)
(* C7 amended: one full playback of "ss" issues, for each 's', A,off       *)
(* three times and off twice, then off four times; message_ended is 1      *)
(* only once all of it has been issued.                                    *)
(***************************************************************************)
C7_SsPattern ==
    (messages = RealMessages /\ message_index = 0 /\ fromStart) =>
        /\ IsPrefix(issued, SsIssued)
        /\ stepEnded => (issued = SsIssued /\ message_ended = 1)
        /\ message_ended = 1 => issued = SsIssued

C7_Witness ==
    /\ messages = RealMessages
    /\ message_index = 0
    /\ fromStart
    /\ stepEnded
    /\ message_ended = 1
    /\ issued = SsIssued

(***************************************************************************)
(* C8 as stated: a step on '.' with phase < dot_len issues A, a step on    *)
(* '-' with phase < dash_len issues B.                                     *)
(***************************************************************************)
C8_Original ==
    [][StepTaken =>
          /\ (ActiveSymbol = "." /\ phase < dot_len) => stepCalls' = <<1>>
          /\ (ActiveSymbol = "-" /\ phase < dash_len) => stepCalls' = <<2>>]_vars

(***************************************************************************)
(* C8 amended: a step on '.' issues A at phase 0 and off at phase 1; a     *)
(* step on '-' issues B at phases 0..2 and off at phase 3.                 *)
(***************************************************************************)
C8_DotDashPattern ==
    [][StepTaken =>
          /\ (ActiveSymbol = "." /\ phase = 0) => stepCalls' = <<1>>
          /\ (ActiveSymbol = "." /\ phase = 1) => stepCalls' = <<0>>
          /\ (ActiveSymbol = "-" /\ phase <= 2) => stepCalls' = <<2>>
          /\ (ActiveSymbol = "-" /\ phase = 3) => stepCalls' = <<0>>]_vars

C8_Witness ==
    /\ pc = "check"
    /\ ActiveSymbol = "-"
    /\ phase = dash_len
    /\ stepCalls = <<0>>
    /\ leds = 0

(***************************************************************************)
(* C9: a dot occupies dot_len steps and a dash dash_len steps: the step    *)
(* taken at the symbol's last phase leaves the cursor at phase 0 of the    *)
(* following symbol or pause.                                              *)
(***************************************************************************)
C9_SymbolTakesItsLength ==
    [][StepTaken =>
          /\ (ActiveSymbol = "." /\ phase = dot_len - 1) =>
                (symbol_index' = symbol_index + 1 /\ phase' = 0)
          /\ (ActiveSymbol = "-" /\ phase = dash_len - 1) =>
                (symbol_index' = symbol_index + 1 /\ phase' = 0)]_vars

(***************************************************************************)
(* C10 as stated: once message_ended is 1 it stays 1 until line 112        *)
(* clears it.                                                              *)
(***************************************************************************)
C10_Original ==
    [][(message_ended = 1 /\ message_ended' = 0) => pc = "a112"]_vars

(***************************************************************************)
(* C10 amended: message_ended goes from 0 to 1 only in the step that ends  *)
(* the inter-message pause and rewinds the cursor; it goes from 1 to 0     *)
(* only in line 112 or in a signal_message step on a character of a        *)
(* message, and every such step leaves it 0.                               *)
(***************************************************************************)
C10_EndedFlag ==
    [][/\ (message_ended = 0 /\ message_ended' = 1) =>
            /\ Stepping
            /\ character_index = Len(CurrentMessage)
            /\ phase > word_pause_len
            /\ AtStart'
            /\ stepEnded'
       /\ (message_ended = 1 /\ message_ended' = 0) =>
            \/ pc = "a112"
            \/ Stepping /\ character_index < Len(CurrentMessage)
       /\ (StepTaken /\ character_index < Len(CurrentMessage)) =>
            message_ended' = 0
       /\ (StepTaken /\ character_index = Len(CurrentMessage)
             /\ phase <= word_pause_len) => message_ended' = message_ended]_vars

C10_Witness ==
    /\ pc = "wait"
    /\ message_ended = 1
    /\ stepEnded
    /\ fromStart
    /\ button_pressed = 0
    /\ Len(CurrentMessage) > 0
    /\ played = Visits(CurrentMessage)

(***************************************************************************)
(* C11 as stated: the first signal_message step on an empty message sets   *)
(* message_ended to 1 and issues no pattern other than off.                *)
(***************************************************************************)
C11_Original ==
    [][(StepTaken /\ CurrentMessage = <<>> /\ AtStart) =>
          /\ message_ended' = 1
          /\ \A i \in 1..Len(stepCalls') : stepCalls'[i] = 0]_vars

(***************************************************************************)
(* C11 amended: on an empty message every step is a step of the            *)
(* inter-message pause: it issues nothing but off, leaves message_ended    *)
(* as it is while phase <= word_pause_len, and sets it at phase            *)
(* word_pause_len + 1, the sixth step of a playback, after off has been    *)
(* issued four times.                                                      *)
(***************************************************************************)
C11_EmptyMessage ==
    [][(StepTaken /\ CurrentMessage = <<>>) =>
          /\ \A i \in 1..Len(stepCalls') : stepCalls'[i] = 0
          /\ leds' = 0
          /\ phase <= word_pause_len =>
                (phase' = phase + 1 /\ message_ended' = message_ended)
          /\ phase > word_pause_len => (message_ended' = 1 /\ AtStart')
          /\ (stepEnded' /\ fromStart') => issued' = <<0, 0, 0, 0>>]_vars

C11_Witness ==
    /\ CurrentMessage = <<>>
    /\ pc = "check"
    /\ stepEnded
    /\ fromStart
    /\ message_ended = 1
    /\ issued = <<0, 0, 0, 0>>
    /\ completions = 1

(***************************************************************************)
(* C12: every loop iteration, the first one included, calls                *)
(* signal_message exactly once before the check of line 110.               *)
(***************************************************************************)
C12_StepEveryTick ==
    /\ pc = "step" => iterSteps = 0
    /\ pc # "step" => iterSteps = 1

\* what does hold: an iteration whose checkTime has reached checkPeriod makes
\* exactly one signal_message call before its check, the others make none
C12_StepOnceDue ==
    /\ pc = "step" => iterSteps = 0
    /\ pc # "step" => iterSteps = (IF StepDue(checkTime) THEN 1 ELSE 0)
    /\ (pc \notin {"step", "clear"} /\ ~StepDue(checkTime)) => AtStart

(***************************************************************************)
(* C13: as long as no button has been pressed, message_index stays 0,      *)
(* message_ended is 1 again and again, every playback begins at cursor     *)
(* (0,0,0) and ends rewound to it, and every playback issues the pattern   *)
(* sequence of the first one.  Checked under FairSpec.                     *)
(***************************************************************************)
C13_ReplayForever ==
    /\ []<>(everPressed \/ message_ended = 1)
    /\ [](~everPressed =>
            /\ message_index = 0
            /\ iterSteps = 1 => fromStart
            /\ stepEnded => (AtStart /\ issued = firstIssued))

C13_Witness ==
    /\ messages = RealMessages
    /\ ~everPressed
    /\ completions = 2
    /\ stepEnded
    /\ message_ended = 1
    /\ AtStart
    /\ issued = firstIssued
    /\ Len(issued) = 20

\* the positions of mainThread inside the apply block (lines 111-113)
ApplyBlock == {"a111r", "a111n", "a111m", "a112", "a113"}

(***************************************************************************)
(* C14: with the handlers preempting mainThread between any two of its     *)
(* statements, message_index is the sum modulo N of the increments of the  *)
(* applied presses, one per apply; a latched press holds exactly one       *)
(* handler's increment in next_message_index until line 111 applies it,    *)
(* and inside the apply block the latch is set, so no handler adds one.    *)
(***************************************************************************)
C14_OneIncrementPerApply ==
    /\ message_index = incSum
    /\ (button_pressed = 1) = (latchedBy # "none")
    /\ pc \in ApplyBlock => button_pressed = 1
    /\ button_pressed = 0 => next_message_index = message_index
    /\ (button_pressed = 1 /\ pc \notin {"a111m", "a112", "a113"}) =>
          next_message_index = message_index + PendingInc
    /\ pc = "a111m" =>
          /\ next_message_index = (message_index + PendingInc) % num_messages
          /\ tmp = next_message_index
    /\ pc \in {"a112", "a113"} =>
          /\ next_message_index = message_index
          /\ message_index = (appliedFrom + PendingInc) % num_messages

C14_Witness ==
    /\ messages = RealMessages
    /\ pc = "a113"
    /\ ev = "btn1"
    /\ latchedBy = "next"
    /\ origin = 0
    /\ nextRun = 2
    /\ message_index = 2
    /\ incSum = 2

\* the character under the cursor, NUL at the end of the message
CurrentCharacter ==
    IF character_index < Len(CurrentMessage)
    THEN CurrentMessage[character_index + 1]
    ELSE NUL

(***************************************************************************)
(* C15: message_index is a valid index of messages, character_index is     *)
(* at most the length of the current message, symbol_index at most the     *)
(* length of the Morse string of the current character, phase at most      *)
(* word_pause_len + 1; so every read of signal_message is of a character   *)
(* or of the terminator, never past it.                                    *)
(***************************************************************************)
C15_IndicesInRange ==
    /\ message_index \in 0..(num_messages - 1)
    /\ character_index <= Len(CurrentMessage)
    /\ symbol_index <= Len(get_morse(CurrentCharacter))
    /\ phase <= word_pause_len + 1
    /\ CurChars = {CurrentCharacter}
    /\ CurSymbols(CurrentCharacter) \subseteq {ActiveSymbol}

C15_Witness ==
    /\ messages = RealMessages
    /\ message_index = 2
    /\ character_index = Len(CurrentMessage)
    /\ symbol_index = 0
    /\ phase = word_pause_len + 1
    /\ pc = "check"

(***************************************************************************)
(* C16: a signal_message call issues at most one set_leds call, and none   *)
(* when it advances symbol_index or character_index or sets                *)
(* message_ended.                                                          *)
(***************************************************************************)
C16_OneCallOrAdvance ==
    [][StepTaken =>
          /\ Len(stepCalls') <= 1
          /\ Len(issued') <= Len(issued) + 1
          /\ (symbol_index' # symbol_index \/ character_index' # character_index
                \/ stepEnded' \/ (message_ended = 0 /\ message_ended' = 1))
               => stepCalls' = <<>>]_vars

C16_Witness ==
    /\ messages = RealMessages
    /\ pc = "check"
    /\ iterSteps = 1
    /\ stepCalls = <<>>
    /\ character_index = 0
    /\ symbol_index = 1
    /\ phase = 0
    /\ leds = 0

\* the set_leds arguments issued by stepping signal_message on message M from
\* cursor (ci, si, ph) to the step that sets message_ended, no handler running
RECURSIVE PlayFrom(_, _, _, _)
PlayFrom(M, ci, si, ph) ==
    LET character == CHOOSE c \in ReadAt(M, ci, Chars) : TRUE
        symbol == IF character = NUL THEN NUL
                  ELSE CHOOSE y \in ReadAt(get_morse(character), si, Symbols) : TRUE
        r == StepResult(character, symbol, ci, si, ph, 0)
    IN IF r.ended = 1 THEN r.calls
       ELSE r.calls \o PlayFrom(M, r.ci, r.si, r.ph)

\* every message of every list of the model
AllMessages == UNION {{l[i] : i \in 1..Len(l)} : l \in MessageLists}

\* the pattern sequence of a whole playback, for each message
NoPressPattern == [M \in AllMessages |-> PlayFrom(M, 0, 0, 0)]

(***************************************************************************)
(* C17: a button handler leaves message_index, character_index,            *)
(* symbol_index, phase, message_ended and the LEDs as they are, and a      *)
(* playback begun at the start of a message issues, whatever handlers run  *)
(* during it, the pattern sequence that stepping the message with no       *)
(* handler issues.                                                         *)
(***************************************************************************)
C17_HandlersLeavePlayback ==
    [][/\ ev' \in {"btn0", "btn1"} =>
            UNCHANGED <<message_index, character_index, symbol_index, phase,
                        message_ended, leds, issued>>
       /\ fromStart' =>
            /\ IsPrefix(issued', NoPressPattern[CurrentMessage'])
            /\ stepEnded' => issued' = NoPressPattern[CurrentMessage']]_vars

C17_Witness ==
    /\ messages = RealMessages
    /\ message_index = 1
    /\ pc = "check"
    /\ fromStart
    /\ stepEnded
    /\ pressedMid
    /\ button_pressed = 1
    /\ issued = NoPressPattern[CurrentMessage]
    /\ Len(issued) = 32

(***************************************************************************)
(* C18: whenever mainThread changes message_index the cursor is at         *)
(* (0,0,0).                                                                *)
(***************************************************************************)
C18_SwitchAtStart ==
    [][message_index' # message_index => AtStart]_vars

\* what does hold: the switch finds the cursor at the first character and
\* symbol, and at phase 0 unless the message switched from is empty
C18_SwitchAtFirstSymbol ==
    [][message_index' # message_index =>
          /\ character_index = 0
          /\ symbol_index = 0
          /\ CurrentMessage # <<>> => phase = 0]_vars

(***************************************************************************)
(* C19: whenever mainThread reads the latch and the counter (lines 110     *)
(* and 111), button_pressed = 0 implies next_message_index =               *)
(* message_index, button_pressed = 1 implies they differ, and              *)
(* next_message_index is at most 2N - 2.                                   *)
(***************************************************************************)
C19_LatchAndCounter ==
    pc \in {"check", "a111r"} =>
        /\ button_pressed = 0 => next_message_index = message_index
        /\ button_pressed = 1 => next_message_index # message_index
        /\ next_message_index <= 2 * num_messages - 2

\* what does hold for every list: the counter is message_index when the latch
\* is clear and never exceeds N or 2N - 2, far from 256
C19_CounterBounded ==
    /\ button_pressed = 0 => next_message_index = message_index
    /\ next_message_index <= num_messages \/ next_message_index <= 2 * num_messages - 2
    /\ next_message_index < UCharMod - 1

\* the physical LEDs are off while the cursor is on anything but a dot or a dash
InPause == ActiveSymbol \notin {".", "-"}

(***************************************************************************)
(* C20: the LEDs are never both on, and they are off whenever the cursor   *)
(* is in an inter-character pause, an inter-message pause or a pause       *)
(* symbol, also after the steps of a pause that make no set_leds call.     *)
(***************************************************************************)
C20_LedsOffInPause ==
    /\ leds \in {0, 1, 2}
    /\ InPause => leds = 0

C20_Witness ==
    /\ messages = RealMessages
    /\ pc = "check"
    /\ iterSteps = 1
    /\ stepCalls = <<>>
    /\ ActiveSymbol = NUL
    /\ character_index = 1
    /\ phase = character_pause_len + 1
    /\ leds = 0

(***************************************************************************)
(* The lists with at least two messages, on which every latched press is   *)
(* applied (C2_PressEventuallyApplied holds under FairSpecMulti).          *)
(***************************************************************************)
InitMulti == InitWith({l \in MessageLists : Len(l) >= 2})

FairSpecMulti ==
    InitMulti /\ [][Next]_vars /\ WF_vars(mainThread) /\ WF_vars(timerCallback)

\* the same lists without fairness (C19_LatchAndCounter holds under SpecMulti)
SpecMulti == InitMulti /\ [][Next]_vars
====
